---- MODULE Spec2Model ----
(***************************************************************************)
(* Model of the Clay integration service (src/api.py): the POST /process   *)
(* handler, the in-memory company_queue, the background queue_worker and   *)
(* the batch pipeline process_company_batch with its scoring, message      *)
(* generation and webhook delivery steps.  Text is modelled as real        *)
(* strings: substring tests, lower-casing, splitting and integer parsing   *)
(* are computed the way the Python code computes them.                     *)
(***************************************************************************)
EXTENDS Integers, Sequences, FiniteSets, TLC

(* ------------------------------ bounds -------------------------------- *)

\* POST /process requests issued in one run of the full system
MaxPosts == 2
\* employees in one batch of the single-batch specification
MaxEmps == 2
\* entries in the JSON array returned by the scoring LLM
MaxEntries == 2

(* ------------------------- program constants -------------------------- *)

\* CONFIG.get("api", {}).get("max_targets_per_company", 3)
DefaultTopN == 3
\* s.score >= 70
SelectThreshold == 70
\* score = 8  # Default
DefaultMessageScore == 8

(* ----------------------------- strings -------------------------------- *)

\* str.lower() on one character (ASCII letters; everything else is kept)
LowerChar(c) ==
  CASE c = "A" -> "a" [] c = "B" -> "b" [] c = "C" -> "c" [] c = "D" -> "d"
    [] c = "E" -> "e" [] c = "F" -> "f" [] c = "G" -> "g" [] c = "H" -> "h"
    [] c = "I" -> "i" [] c = "J" -> "j" [] c = "K" -> "k" [] c = "L" -> "l"
    [] c = "M" -> "m" [] c = "N" -> "n" [] c = "O" -> "o" [] c = "P" -> "p"
    [] c = "Q" -> "q" [] c = "R" -> "r" [] c = "S" -> "s" [] c = "T" -> "t"
    [] c = "U" -> "u" [] c = "V" -> "v" [] c = "W" -> "w" [] c = "X" -> "x"
    [] c = "Y" -> "y" [] c = "Z" -> "z" [] OTHER -> c

RECURSIVE LowerFrom(_, _)
\* the lower-cased text of s from position k on
LowerFrom(s, k) ==
  IF k > Len(s) THEN "" ELSE LowerChar(SubSeq(s, k, k)) \o LowerFrom(s, k + 1)

\* str.lower()
Lower(s) == LowerFrom(s, 1)

\* index of the first occurrence of needle in hay, 0 when there is none
Find(hay, needle) ==
  LET hits == {k \in 1..(Len(hay) - Len(needle) + 1) :
                 SubSeq(hay, k, k + Len(needle) - 1) = needle}
  IN IF hits = {} THEN 0 ELSE CHOOSE k \in hits : \A m \in hits : k <= m

\* Python's "needle in hay"
Contains(hay, needle) == Find(hay, needle) # 0

\* hay.split(sep)[0]: the text before the first sep (all of hay without one)
SplitFirst(hay, sep) ==
  IF Find(hay, sep) = 0 THEN hay ELSE SubSeq(hay, 1, Find(hay, sep) - 1)

\* the text after the first sep; only used when hay contains sep
AfterSep(hay, sep) == SubSeq(hay, Find(hay, sep) + Len(sep), Len(hay))

\* hay.split(sep)[1]: the text between the first sep and the next one
SplitSecond(hay, sep) == SplitFirst(AfterSep(hay, sep), sep)

IsSpace(c) == c \in {" ", "\n", "\t", "\r"}

\* str.strip(): the text between the first and the last non-space character
Strip(s) ==
  LET keep == {k \in 1..Len(s) : ~IsSpace(SubSeq(s, k, k))}
  IN IF keep = {} THEN ""
     ELSE SubSeq(s, CHOOSE k \in keep : \A m \in keep : k <= m,
                    CHOOSE k \in keep : \A m \in keep : k >= m)

DigitValue(c) ==
  CASE c = "0" -> 0 [] c = "1" -> 1 [] c = "2" -> 2 [] c = "3" -> 3 [] c = "4" -> 4
    [] c = "5" -> 5 [] c = "6" -> 6 [] c = "7" -> 7 [] c = "8" -> 8 [] c = "9" -> 9
    [] OTHER -> -1

AllDigits(s) ==
  Len(s) > 0 /\ \A k \in 1..Len(s) : DigitValue(SubSeq(s, k, k)) >= 0

RECURSIVE DigitsUpTo(_, _)
\* the number the first k digits of s write
DigitsUpTo(s, k) ==
  IF k = 0 THEN 0 ELSE 10 * DigitsUpTo(s, k - 1) + DigitValue(SubSeq(s, k, k))

DigitsValue(s) == DigitsUpTo(s, Len(s))

\* the text int() is given, after int()'s own stripping and sign
IntBody(s) ==
  LET t == Strip(s)
  IN IF Len(t) > 0 /\ SubSeq(t, 1, 1) \in {"+", "-"} THEN SubSeq(t, 2, Len(t)) ELSE t

\* whether int(s) returns (decimal digits with an optional sign)
IntParses(s) == AllDigits(IntBody(s))

\* int(s), when it returns
IntOf(s) ==
  LET t == Strip(s)
  IN IF Len(t) > 0 /\ SubSeq(t, 1, 1) = "-" THEN 0 - DigitsValue(IntBody(s))
     ELSE DigitsValue(IntBody(s))

(* ------------------------------- data --------------------------------- *)

\* Employee records as POST /process receives them (vmid, fullName, title;
\* the other fields only feed prompts).  Two of them share a vmid: ingress
\* does not check that the ids of a request are distinct.
Employees ==
  { [vmid |-> "v1", fullName |-> "Al",  title |-> "CTO"],
    [vmid |-> "v2", fullName |-> "Ali", title |-> "Tech Manager"],
    [vmid |-> "v1", fullName |-> "Bo",  title |-> "Intern"],
    [vmid |-> "v3", fullName |-> "Cy",  title |-> "VP Sales"] }

\* job titles that reach every branch of the keyword table of
\* fallback_scoring, alone and combined with the bonus keywords
Titles ==
  << "CTO", "Chief Technology Officer", "VP Sales", "Vice President", "Chief of Staff",
     "Director", "Head of Product", "Head of Director Relations", "Manager",
     "Tech Manager", "Intern", "Digital Intern", "VP Innovation", "HEAD OF TRANSFORMATION" >>

\* one employee per title, with distinct vmids and a name no scoring entry
\* contains
TitleEmployees ==
  { [vmid |-> "t" \o ToString(k), fullName |-> "Dee", title |-> Titles[k]] :
      k \in DOMAIN Titles }

\* a batch of five employees with the titles CTO, Manager, Director, Intern and
\* VP Sales
ScenarioEmployees ==
  << [vmid |-> "s1", fullName |-> "Dee", title |-> "CTO"],
     [vmid |-> "s2", fullName |-> "Dee", title |-> "Manager"],
     [vmid |-> "s3", fullName |-> "Dee", title |-> "Director"],
     [vmid |-> "s4", fullName |-> "Dee", title |-> "Intern"],
     [vmid |-> "s5", fullName |-> "Dee", title |-> "VP Sales"] >>

\* the employee lists whose titles are scored: up to n of the titled
\* employees in any order, and the batch of five
TitleLists(n) ==
  UNION { [1..k -> TitleEmployees] : k \in 1..n } \cup {ScenarioEmployees}

\* non-empty employee lists of up to n employees
EmployeeLists(n) == UNION { [1..k -> Employees] : k \in 1..n }

\* the queue's shutdown signal (None); a batch carries an id >= 1, the
\* position of its put among all puts of batches
NoneItem == [id |-> 0, employees |-> <<>>]

\* max_targets_per_company values the configuration may hold
TopNs == {1, DefaultTopN}

\* elements of the JSON array the scoring LLM may return: a name, a score and
\* whether the "reasoning" key is present
ScoreEntries ==
  { [name |-> "AL",  score |-> 70,  reasoning |-> "senior", complete |-> TRUE],
    [name |-> "Ali", score |-> 69,  reasoning |-> "middle", complete |-> TRUE],
    [name |-> "bo",  score |-> 90,  reasoning |-> "keen",   complete |-> TRUE],
    [name |-> "Cy",  score |-> 40,  reasoning |-> "junior", complete |-> TRUE],
    [name |-> "Bo",  score |-> 150, reasoning |-> "great",  complete |-> TRUE],
    [name |-> "Cy",  score |-> 80,  reasoning |-> "",       complete |-> FALSE] }

\* what llm.invoke does in score_employees: it raises, or returns content that
\* json.loads rejects (or that is no array of objects), or returns an array
LLMResponses ==
  { [kind |-> "raise", entries |-> <<>>], [kind |-> "garbage", entries |-> <<>>] }
  \cup { [kind |-> "array", entries |-> es] :
           es \in UNION { [1..k -> ScoreEntries] : k \in 0..MaxEntries } }

\* str(e) of the exceptions the LLM clients raise
ExceptionTexts == {"Request timed out.", "Connection error."}

\* the structured results the selection LLM may return (SelectedMessage,
\* score validated to 1..10 by the model class)
SelectedMessages ==
  { [message |-> "Hi Al",          score |-> 9, reason |-> "warm"],
    [message |-> "Score: 0/5 fit", score |-> 7, reason |-> "bold"] }

\* what requests.post and raise_for_status do in send_to_webhook
DeliveryOutcomes == {"2xx", "non2xx", "transport_error"}

(* ------------------------------ scoring ------------------------------- *)

FallbackBonusKeywords == {"digital", "technology", "tech", "innovation", "transformation"}

\* mutant: the score is not capped (score for min(score, 100))
FallbackScore_NoCap(title) ==
  LET title_lower == Lower(title)
      base ==
        IF Contains(title_lower, "cto") \/ Contains(title_lower, "chief technology") THEN 95
        ELSE IF Contains(title_lower, "vp") \/ Contains(title_lower, "vice president") THEN 90
        ELSE IF Contains(title_lower, "chief") THEN 85
        ELSE IF Contains(title_lower, "director") THEN 75
        ELSE IF Contains(title_lower, "head of") THEN 80
        ELSE IF Contains(title_lower, "manager") THEN 60
        ELSE 50
  IN IF \E kw \in {"digital", "technology", "tech", "innovation", "transformation"} :
          Contains(title_lower, kw)
     THEN base + 10 ELSE base

\* the keyword score of one title in fallback_scoring
FallbackScore(title) ==
  LET title_lower == Lower(title)
      base ==
        IF Contains(title_lower, "cto") \/ Contains(title_lower, "chief technology") THEN 95
        ELSE IF Contains(title_lower, "vp") \/ Contains(title_lower, "vice president") THEN 90
        ELSE IF Contains(title_lower, "chief") THEN 85
        ELSE IF Contains(title_lower, "director") THEN 75
        ELSE IF Contains(title_lower, "head of") THEN 80
        ELSE IF Contains(title_lower, "manager") THEN 60
        ELSE 50
      score ==
        IF \E kw \in FallbackBonusKeywords : Contains(title_lower, kw)
        THEN base + 10 ELSE base
  IN IF score < 100 THEN score ELSE 100

RECURSIVE InsertDesc(_, _)
\* x placed behind every element whose score is >= x.score
InsertDesc(sorted, x) ==
  IF Len(sorted) = 0 THEN <<x>>
  ELSE IF Head(sorted).score >= x.score
       THEN <<Head(sorted)>> \o InsertDesc(Tail(sorted), x)
       ELSE <<x>> \o sorted

RECURSIVE SortDesc(_)
\* list.sort(key=lambda x: x.score, reverse=True): stable, score descending
SortDesc(xs) ==
  IF Len(xs) = 0 THEN <<>>
  ELSE InsertDesc(SortDesc(SubSeq(xs, 1, Len(xs) - 1)), xs[Len(xs)])

\* an EmployeeScore; idx is the position of the employee it was made for
\* (a history field: the code identifies scores by vmid alone)
EmployeeScore(employees, k, score, reasoning) ==
  [vmid |-> employees[k].vmid, score |-> score, reasoning |-> reasoning, idx |-> k]

\* fallback_scoring
FallbackScoring(employees) ==
  SortDesc([k \in 1..Len(employees) |->
              EmployeeScore(employees, k, FallbackScore(employees[k].title),
                            "Scored based on title and role relevance")])

\* emp.fullName.lower() in s["name"].lower()
NameMatches(emp, s) == Contains(Lower(s.name), Lower(emp.fullName))

\* next((s for s in scores if ...), None): index of the first match, 0 for None
FirstMatch(emp, scores) ==
  LET hits == {k \in 1..Len(scores) : NameMatches(emp, scores[k])}
  IN IF hits = {} THEN 0 ELSE CHOOSE k \in hits : \A m \in hits : k <= m

\* mutant: EmployeeScore does not validate and a missing key reads as empty
EntryRaises_Never(s) == FALSE

\* building the EmployeeScore of a match raises: a missing key (KeyError) or
\* a score outside Field(ge=0, le=100) (ValidationError)
EntryRaises(s) == ~s.complete \/ s.score < 0 \/ s.score > 100

RECURSIVE MatchedScores(_, _, _)
\* the scored list of the LLM path before sorting, employees k..n
MatchedScores(employees, scores, k) ==
  IF k > Len(employees) THEN <<>>
  ELSE LET m == FirstMatch(employees[k], scores)
       IN (IF m = 0 THEN <<>>
           ELSE <<EmployeeScore(employees, k, scores[m].score, scores[m].reasoning)>>)
          \o MatchedScores(employees, scores, k + 1)

\* the try block of score_employees raises
ParseRaises(employees, resp) ==
  \/ resp.kind = "garbage"
  \/ \E k \in 1..Len(employees) :
       LET m == FirstMatch(employees[k], resp.entries)
       IN m # 0 /\ EntryRaises(resp.entries[m])

\* score_employees once llm.invoke has returned resp
ScoreEmployees(employees, resp) ==
  IF ParseRaises(employees, resp) THEN FallbackScoring(employees)
  ELSE SortDesc(MatchedScores(employees, resp.entries, 1))

(* ----------------------------- selection ------------------------------ *)

\* scored[:top_n]
TopSlice(scored, n) == SubSeq(scored, 1, IF n < Len(scored) THEN n ELSE Len(scored))

\* any(s.vmid == emp.vmid and s.score >= 70 for s in scored[:top_n])
IsSelected(emp, scored, n) ==
  \E k \in DOMAIN TopSlice(scored, n) :
     scored[k].vmid = emp.vmid /\ scored[k].score >= SelectThreshold

\* next((s for s in scored if s.vmid == emp.vmid), None): index, 0 for None
ScoreObj(emp, scored) ==
  LET hits == {k \in 1..Len(scored) : scored[k].vmid = emp.vmid}
  IN IF hits = {} THEN 0 ELSE CHOOSE k \in hits : \A m \in hits : k <= m

\* the OutreachResult of employee k as built before message generation
NewResult(employees, k, scored, n) ==
  LET emp == employees[k]
      sel == IsSelected(emp, scored, n)
      so  == ScoreObj(emp, scored)
      txt == IF so = 0 THEN ""
             ELSE "Score: " \o ToString(scored[so].score) \o "/100. " \o scored[so].reasoning
  IN [vmid |-> emp.vmid, fullName |-> emp.fullName, title |-> emp.title,
      selected |-> sel,
      selection_reasoning |->
        IF sel THEN txt
        ELSE IF so # 0 THEN "Not selected. " \o txt
        ELSE "Not scored.",
      message |-> "", message_score |-> 0, error |-> ""]

(* ------------------------- message generation ------------------------- *)

\* the text select_best_message returns for the structured result r
FormatSelected(r) ==
  "SELECTED MESSAGE:\n" \o r.message \o "\n\nWHY THIS ONE (Score: "
    \o ToString(r.score) \o "/10):\n" \o r.reason \o "\n\nWHY NOT OTHERS:\n"

\* generate_message_for_employee once select_best_message has returned the
\* text selected: the parse of the message and of the score
ParseSelected(selected) ==
  IF ~Contains(selected, "SELECTED MESSAGE:")
  THEN [message |-> "", score |-> 0, error |-> "list index out of range"]
  ELSE [message |-> Strip(SplitFirst(SplitSecond(selected, "SELECTED MESSAGE:"),
                                     "WHY THIS ONE")),
        score |->
          IF Contains(selected, "Score:")
             /\ IntParses(SplitFirst(SplitSecond(selected, "Score:"), "/"))
          THEN IntOf(SplitFirst(SplitSecond(selected, "Score:"), "/"))
          ELSE DefaultMessageScore,
        error |-> ""]

\* mutant: the except branch keeps the default score
MessageFailure_DefaultScore(text) ==
  [message |-> "", score |-> DefaultMessageScore, error |-> text]

\* the except branch of generate_message_for_employee
MessageFailure(text) == [message |-> "", score |-> 0, error |-> text]

\* result.message, result.message_score, result.error from msg_result
WithMessage(result, msg_result) ==
  [result EXCEPT !.message = msg_result.message,
                 !.message_score = msg_result.score,
                 !.error = msg_result.error]

(* ------------------------------- state -------------------------------- *)

VARIABLES
  queue,         \* company_queue: batches and None, head first
  top_n,         \* CONFIG["api"]["max_targets_per_company"]
  posts,         \* POST /process requests received so far
  accepted,      \* batches put on the queue so far (the id of the last one)
  pending,       \* handlers that have put their batch and not yet read qsize()
  lastResponse,  \* the last HTTP response of POST /process
  sentinelAt,    \* batches accepted when None was put; -1 before that
  pc,            \* where the worker thread is
  cur,           \* the batch the worker took
  i,             \* index of the employee the loop of the pipeline is at
  scored,        \* the list score_employees returned
  result,        \* the OutreachResult being built
  failure,       \* which step of generate_message_for_employee raised
  failedCount,   \* employees of cur whose message generation raised
  scorePath,     \* how score_employees ended for cur
  researchCalls, \* research_company calls made for cur
  sent,          \* employee indexes delivered for cur, in order
  selectedCount, \* results with selected=true delivered for cur
  lastDelivery,  \* the last payload given to send_to_webhook
  deliveryFailures, \* deliveries of cur that send_to_webhook logged as failed
  genCalls,      \* generate_message_variants calls made for the employee at i
  selCalls,      \* select_best_message calls made for the employee at i
  scores,        \* the array json.loads returned in the score_employees call
                 \* that has just returned (a local of that call)
  started,       \* ids of the batches given to process_company_batch, in order
  finished       \* how each started batch ended, in order

vars ==
  << queue, top_n, posts, accepted, pending, lastResponse, sentinelAt, pc, cur, i,
     scored, result, failure, failedCount, scorePath, researchCalls, sent, selectedCount, lastDelivery,
     deliveryFailures, genCalls, selCalls, scores, started, finished >>

ingressVars == << posts, accepted, pending, lastResponse, sentinelAt >>
batchVars == << cur, i, scored, result, failure, failedCount, scorePath, researchCalls, sent, selectedCount,
                lastDelivery, deliveryFailures, genCalls, selCalls, scores >>

NoResult ==
  [vmid |-> "", fullName |-> "", title |-> "", selected |-> FALSE,
   selection_reasoning |-> "", message |-> "", message_score |-> 0, error |-> ""]

NoDelivery ==
  [batch |-> 0, idx |-> 0, result |-> NoResult, outcome |-> "", failure |-> "none",
   gen |-> 0, sel |-> 0]

\* a response of POST /process, with the request it answers: the number of
\* the request, what its body was like, the status code and the fields of
\* the JSON answer
Response(req, request, code, batch, employees, queue_position) ==
  [req |-> req, request |-> request, code |-> code, batch |-> batch,
   employees |-> employees, queue_position |-> queue_position]

NoResponse == Response(0, "", 0, 0, 0, 0)

\* request bodies POST /process answers with 400: no data (null or an empty
\* object), no "records" key, an empty "records" array, no "webhook_url"
RejectedRequests == {"no_data", "no_records", "empty_records", "no_webhook_url"}

\* request bodies that raise inside the handler: a body that is not JSON
\* (request.json / get_json raise) and a record that is no valid Employee
FailingRequests == {"not_json", "bad_record"}

\* employee lists the requests of the full system carry
PostedLists ==
  { <<[vmid |-> "v1", fullName |-> "Al", title |-> "CTO"]>>,
    <<[vmid |-> "v1", fullName |-> "Bo", title |-> "Intern"]>> }

\* the worker thread has been started and waits on an empty queue
WorkerInit ==
  /\ pc = "get"
  /\ cur = NoneItem
  /\ i = 0
  /\ scored = <<>>
  /\ result = NoResult
  /\ failure = "none"
  /\ failedCount = 0
  /\ scorePath = "none"
  /\ researchCalls = 0
  /\ sent = <<>>
  /\ selectedCount = 0
  /\ lastDelivery = NoDelivery
  /\ deliveryFailures = 0
  /\ genCalls = 0
  /\ selCalls = 0
  /\ scores = <<>>
  /\ started = <<>>
  /\ finished = <<>>

\* the service after start-up: nothing received
Init ==
  /\ queue = <<>>
  /\ top_n = DefaultTopN
  /\ posts = 0
  /\ accepted = 0
  /\ pending = {}
  /\ lastResponse = NoResponse
  /\ sentinelAt = -1
  /\ WorkerInit

\* the service after one POST /process has been answered and before the
\* worker has taken its batch, for every employee list of up to MaxEmps
InitBatch ==
  /\ \E emps \in EmployeeLists(MaxEmps) :
       /\ queue = <<[id |-> 1, employees |-> emps]>>
       /\ lastResponse = Response(1, "valid", 202, 1, Len(emps), 1)
  /\ top_n \in TopNs
  /\ posts = 1
  /\ accepted = 1
  /\ pending = {}
  /\ sentinelAt = -1
  /\ WorkerInit

\* the service after one POST /process has been answered and before the
\* worker has taken its batch, for the employee lists whose titles are scored
\* and the default max_targets_per_company
InitTitles ==
  /\ \E emps \in TitleLists(MaxEmps) :
       /\ queue = <<[id |-> 1, employees |-> emps]>>
       /\ lastResponse = Response(1, "valid", 202, 1, Len(emps), 1)
  /\ top_n = DefaultTopN
  /\ posts = 1
  /\ accepted = 1
  /\ pending = {}
  /\ sentinelAt = -1
  /\ WorkerInit

(* ------------------------------ ingress ------------------------------- *)

\* mutant: a last-in, first-out queue
QueuePut_Front(q, item) == <<item>> \o q

\* company_queue.put(item): Queue is first in, first out
QueuePut(q, item) == Append(q, item)

\* mutant: the batch is put on the queue before the request is validated
PostReject_Enqueues ==
  /\ posts < MaxPosts
  /\ \E why \in RejectedRequests :
       lastResponse' = Response(posts + 1, why, 400, 0, 0, 0)
  /\ queue' = Append(queue, [id |-> accepted + 1, employees |-> <<>>])
  /\ accepted' = accepted + 1
  /\ posts' = posts + 1
  /\ UNCHANGED << top_n, pending, sentinelAt, pc, batchVars, started, finished >>

\* POST /process with no JSON data, no records or no webhook_url: 400
PostReject ==
  /\ posts < MaxPosts
  /\ \E why \in RejectedRequests :
       lastResponse' = Response(posts + 1, why, 400, 0, 0, 0)
  /\ posts' = posts + 1
  /\ UNCHANGED << queue, top_n, accepted, pending, sentinelAt, pc, batchVars,
                  started, finished >>

\* POST /process whose handling raises before the put (the body is not JSON
\* or a record does not validate as Employee): except Exception, 500
PostError ==
  /\ posts < MaxPosts
  /\ \E why \in FailingRequests :
       lastResponse' = Response(posts + 1, why, 500, 0, 0, 0)
  /\ posts' = posts + 1
  /\ UNCHANGED << queue, top_n, accepted, pending, sentinelAt, pc, batchVars,
                  started, finished >>

\* mutant: a request restarts a worker that has terminated
PostPut_RestartsWorker ==
  /\ posts < MaxPosts
  /\ \E emps \in PostedLists :
       /\ queue' = QueuePut(queue, [id |-> accepted + 1, employees |-> emps])
       /\ pending' = pending \cup
            {[req |-> posts + 1, batch |-> accepted + 1, employees |-> Len(emps)]}
  /\ posts' = posts + 1
  /\ accepted' = accepted + 1
  /\ pc' = IF pc = "stopped" THEN "get" ELSE pc
  /\ UNCHANGED << top_n, lastResponse, sentinelAt, batchVars, started, finished >>

\* POST /process with valid data, up to company_queue.put
PostPut ==
  /\ posts < MaxPosts
  /\ \E emps \in PostedLists :
       /\ queue' = QueuePut(queue, [id |-> accepted + 1, employees |-> emps])
       /\ pending' = pending \cup
            {[req |-> posts + 1, batch |-> accepted + 1, employees |-> Len(emps)]}
  /\ posts' = posts + 1
  /\ accepted' = accepted + 1
  /\ UNCHANGED << top_n, lastResponse, sentinelAt, pc, batchVars, started, finished >>

\* the rest of that handler: queue_position = company_queue.qsize(), 202
PostRespond ==
  /\ \E h \in pending :
       /\ lastResponse' = Response(h.req, "valid", 202, h.batch, h.employees,
                                   Len(queue))
       /\ pending' = pending \ {h}
  /\ UNCHANGED << queue, top_n, posts, accepted, sentinelAt, pc, batchVars,
                  started, finished >>

\* the shutdown signal is put on the queue
PutSentinel ==
  /\ sentinelAt = -1
  /\ queue' = QueuePut(queue, NoneItem)
  /\ sentinelAt' = accepted
  /\ UNCHANGED << top_n, posts, accepted, pending, lastResponse, pc, batchVars,
                  started, finished >>

\* the answer GET /health gives in the current state
HealthResponse == [status |-> "healthy", queue_size |-> Len(queue)]

\* the answer GET / gives in the current state
IndexResponse == [name |-> "AI Outreach Agent API", version |-> "1.0", queue_size |-> Len(queue)]

\* GET /health: reads company_queue.qsize() and changes nothing
Health ==
  /\ HealthResponse.queue_size = Len(queue)
  /\ UNCHANGED vars

\* GET /: reads company_queue.qsize() and changes nothing
Index ==
  /\ IndexResponse.queue_size = Len(queue)
  /\ UNCHANGED vars

(* ------------------------------- worker ------------------------------- *)

\* mutant: a batch is taken while another one is still in the pipeline (a
\* second worker thread on the same queue)
WorkerGetBatch_Concurrent ==
  /\ pc # "stopped"
  /\ queue # <<>>
  /\ Head(queue) # NoneItem
  /\ queue' = Tail(queue)
  /\ cur' = Head(queue)
  /\ started' = Append(started, Head(queue).id)
  /\ pc' = "research"
  /\ i' = 0
  /\ scored' = <<>>
  /\ result' = NoResult
  /\ failure' = "none"
  /\ failedCount' = 0
  /\ scorePath' = "none"
  /\ researchCalls' = 0
  /\ sent' = <<>>
  /\ selectedCount' = 0
  /\ lastDelivery' = NoDelivery
  /\ deliveryFailures' = 0
  /\ genCalls' = 0
  /\ selCalls' = 0
  /\ scores' = <<>>
  /\ UNCHANGED << top_n, ingressVars, finished >>

\* batch = company_queue.get() returns a batch; process_company_batch starts
WorkerGetBatch ==
  /\ pc = "get"
  /\ queue # <<>>
  /\ Head(queue) # NoneItem
  /\ queue' = Tail(queue)
  /\ cur' = Head(queue)
  /\ started' = Append(started, Head(queue).id)
  /\ pc' = "research"
  /\ i' = 0
  /\ scored' = <<>>
  /\ result' = NoResult
  /\ failure' = "none"
  /\ failedCount' = 0
  /\ scorePath' = "none"
  /\ researchCalls' = 0
  /\ sent' = <<>>
  /\ selectedCount' = 0
  /\ lastDelivery' = NoDelivery
  /\ deliveryFailures' = 0
  /\ genCalls' = 0
  /\ selCalls' = 0
  /\ scores' = <<>>
  /\ UNCHANGED << top_n, ingressVars, finished >>

\* mutant: the worker skips None and keeps waiting (continue for break)
WorkerGetSentinel_Continue ==
  /\ pc = "get"
  /\ queue # <<>>
  /\ Head(queue) = NoneItem
  /\ queue' = Tail(queue)
  /\ pc' = "get"
  /\ UNCHANGED << top_n, ingressVars, batchVars, started, finished >>

\* batch = company_queue.get() returns None: break
WorkerGetSentinel ==
  /\ pc = "get"
  /\ queue # <<>>
  /\ Head(queue) = NoneItem
  /\ queue' = Tail(queue)
  /\ pc' = "stopped"
  /\ UNCHANGED << top_n, ingressVars, batchVars, started, finished >>

\* process_company_batch is left (return or exception): its locals are gone
FrameGone ==
  /\ cur' = NoneItem
  /\ i' = 0
  /\ scored' = <<>>
  /\ result' = NoResult
  /\ failure' = "none"
  /\ failedCount' = 0
  /\ scorePath' = "none"
  /\ researchCalls' = 0
  /\ sent' = <<>>
  /\ selectedCount' = 0
  /\ lastDelivery' = NoDelivery
  /\ deliveryFailures' = 0
  /\ genCalls' = 0
  /\ selCalls' = 0
  /\ scores' = <<>>

\* mutant: the try of the worker is outside its loop, an exception ends it
BatchRaised_Stops(calls, path) ==
  /\ pc' = "stopped"
  /\ finished' = Append(finished, [id |-> cur.id, outcome |-> "raised",
                                   employees |-> Len(cur.employees),
                                   delivered |-> Len(sent), selected |-> selectedCount,
                                   failed |-> failedCount, scoring |-> path,
                                   research |-> calls, delayed |-> FALSE])

\* an exception leaves process_company_batch: the except branch of the
\* worker logs it and the loop goes back to company_queue.get()
BatchRaised(calls, path) ==
  /\ pc' = "get"
  /\ finished' = Append(finished, [id |-> cur.id, outcome |-> "raised",
                                   employees |-> Len(cur.employees),
                                   delivered |-> Len(sent), selected |-> selectedCount,
                                   failed |-> failedCount, scoring |-> path,
                                   research |-> calls, delayed |-> FALSE])

\* research_company returns
ResearchReturns ==
  /\ pc = "research"
  /\ researchCalls' = researchCalls + 1
  /\ pc' = "score"
  /\ UNCHANGED << queue, top_n, ingressVars, cur, i, scored, result, failure,
                  failedCount, scorePath, sent, selectedCount, lastDelivery,
                  deliveryFailures, genCalls, selCalls, scores, started, finished >>

\* research_company raises
ResearchRaises ==
  /\ pc = "research"
  /\ BatchRaised(researchCalls + 1, scorePath)
  /\ FrameGone
  /\ UNCHANGED << queue, top_n, ingressVars, started >>

\* score_employees: llm.invoke raises, outside the try block
ScoreRaises ==
  /\ pc = "score"
  /\ BatchRaised(researchCalls, "invoke_raised")
  /\ FrameGone
  /\ UNCHANGED << queue, top_n, ingressVars, started >>

\* score_employees: llm.invoke returns and the scores are parsed or replaced
\* by the fallback; the loop over the employees starts
ScoreReturns ==
  /\ pc = "score"
  /\ \E resp \in LLMResponses :
       /\ resp.kind # "raise"
       /\ scored' = ScoreEmployees(cur.employees, resp)
       /\ scorePath' = IF ParseRaises(cur.employees, resp) THEN "fallback" ELSE "llm"
       /\ scores' = resp.entries
  /\ i' = 1
  /\ pc' = "employee"
  /\ UNCHANGED << queue, top_n, ingressVars, cur, result, failure, failedCount,
                  researchCalls, sent, selectedCount, lastDelivery, deliveryFailures,
                  genCalls, selCalls, started, finished >>

\* mutant: the result is sent before the message is generated
BeginEmployee_DeliverFirst ==
  /\ pc = "employee"
  /\ i <= Len(cur.employees)
  /\ result' = NewResult(cur.employees, i, scored, top_n)
  /\ failure' = "none"
  /\ pc' = "deliver"
  /\ genCalls' = 0
  /\ selCalls' = 0
  /\ scores' = <<>>
  /\ UNCHANGED << queue, top_n, ingressVars, cur, i, scored, failedCount, scorePath,
                  researchCalls, sent, selectedCount, lastDelivery, deliveryFailures,
                  started, finished >>

\* one iteration of "for emp in employees" up to the selection decision
BeginEmployee ==
  /\ pc = "employee"
  /\ i <= Len(cur.employees)
  /\ result' = NewResult(cur.employees, i, scored, top_n)
  /\ failure' = "none"
  /\ pc' = IF result'.selected THEN "generate" ELSE "deliver"
  /\ genCalls' = 0
  /\ selCalls' = 0
  /\ scores' = <<>>
  /\ UNCHANGED << queue, top_n, ingressVars, cur, i, scored, failedCount, scorePath,
                  researchCalls, sent, selectedCount, lastDelivery, deliveryFailures,
                  started, finished >>

\* mutant: the company is researched again for every selected employee
GenerateReturns_ResearchAgain ==
  /\ pc = "generate"
  /\ pc' = "select"
  /\ researchCalls' = researchCalls + 1
  /\ genCalls' = genCalls + 1
  /\ UNCHANGED << queue, top_n, ingressVars, cur, i, scored, result, failure,
                  failedCount, scorePath, sent, selectedCount, lastDelivery,
                  deliveryFailures, selCalls, scores, started, finished >>

\* generate_message_variants returns
GenerateReturns ==
  /\ pc = "generate"
  /\ pc' = "select"
  /\ genCalls' = genCalls + 1
  /\ UNCHANGED << queue, top_n, ingressVars, cur, i, scored, result, failure,
                  failedCount, scorePath, researchCalls, sent, selectedCount,
                  lastDelivery, deliveryFailures, selCalls, scores, started, finished >>

\* mutant: the exception of generate_message_variants is not caught
GenerateRaises_Propagates ==
  /\ pc = "generate"
  /\ pc' = "get"
  /\ finished' = Append(finished, [id |-> cur.id, outcome |-> "raised",
                                   employees |-> Len(cur.employees),
                                   delivered |-> Len(sent), selected |-> selectedCount,
                                   failed |-> failedCount + 1, scoring |-> scorePath,
                                   research |-> researchCalls, delayed |-> FALSE])
  /\ FrameGone
  /\ UNCHANGED << queue, top_n, ingressVars, started >>

\* generate_message_variants raises: caught in generate_message_for_employee
GenerateRaises ==
  /\ pc = "generate"
  /\ \E text \in ExceptionTexts : result' = WithMessage(result, MessageFailure(text))
  /\ failure' = "generation"
  /\ failedCount' = failedCount + 1
  /\ pc' = "deliver"
  /\ genCalls' = genCalls + 1
  /\ UNCHANGED << queue, top_n, ingressVars, cur, i, scored, scorePath, researchCalls,
                  sent, selectedCount, lastDelivery, deliveryFailures, selCalls, scores,
                  started, finished >>

\* select_best_message returns its formatted text, which is then parsed
SelectReturns ==
  /\ pc = "select"
  /\ \E r \in SelectedMessages :
       /\ result' = WithMessage(result, ParseSelected(FormatSelected(r)))
       /\ failure' = IF ParseSelected(FormatSelected(r)).error # "" THEN "parse" ELSE "none"
       /\ failedCount' = IF ParseSelected(FormatSelected(r)).error # ""
                         THEN failedCount + 1 ELSE failedCount
  /\ pc' = "deliver"
  /\ selCalls' = selCalls + 1
  /\ UNCHANGED << queue, top_n, ingressVars, cur, i, scored, scorePath, researchCalls,
                  sent, selectedCount, lastDelivery, deliveryFailures, genCalls, scores,
                  started, finished >>

\* mutant: generate_message_for_employee has no try around the selection
SelectRaises_Propagates ==
  /\ pc = "select"
  /\ pc' = "get"
  /\ finished' = Append(finished, [id |-> cur.id, outcome |-> "raised",
                                   employees |-> Len(cur.employees),
                                   delivered |-> Len(sent), selected |-> selectedCount,
                                   failed |-> failedCount + 1, scoring |-> scorePath,
                                   research |-> researchCalls, delayed |-> FALSE])
  /\ FrameGone
  /\ UNCHANGED << queue, top_n, ingressVars, started >>

\* mutant: a failed selection is tried again
SelectRaises_Retries ==
  /\ pc = "select"
  /\ pc' = "select"
  /\ selCalls' = selCalls + 1
  /\ UNCHANGED << queue, top_n, ingressVars, cur, i, scored, result, failure,
                  failedCount, scorePath, researchCalls, sent, selectedCount,
                  lastDelivery, deliveryFailures, genCalls, scores, started, finished >>

\* select_best_message raises: caught in generate_message_for_employee
SelectRaises ==
  /\ pc = "select"
  /\ \E text \in ExceptionTexts : result' = WithMessage(result, MessageFailure(text))
  /\ failure' = "selection"
  /\ failedCount' = failedCount + 1
  /\ pc' = "deliver"
  /\ selCalls' = selCalls + 1
  /\ UNCHANGED << queue, top_n, ingressVars, cur, i, scored, scorePath, researchCalls,
                  sent, selectedCount, lastDelivery, deliveryFailures, genCalls, scores,
                  started, finished >>

\* mutant: send_to_webhook has no try and its exception leaves the batch
Deliver_FailureRaises ==
  /\ pc = "deliver"
  /\ BatchRaised(researchCalls, scorePath)
  /\ FrameGone
  /\ UNCHANGED << queue, top_n, ingressVars, started >>

\* send_to_webhook(webhook_url, result) and time.sleep(1): the POST succeeds,
\* or fails and is logged; either way the loop moves to the next employee
Deliver ==
  /\ pc = "deliver"
  /\ \E outcome \in DeliveryOutcomes :
       /\ lastDelivery' = [batch |-> cur.id, idx |-> i, result |-> result,
                           outcome |-> outcome, failure |-> failure,
                           gen |-> genCalls, sel |-> selCalls]
       /\ deliveryFailures' = IF outcome = "2xx" THEN deliveryFailures
                              ELSE deliveryFailures + 1
  /\ sent' = Append(sent, i)
  /\ genCalls' = 0
  /\ selCalls' = 0
  /\ selectedCount' = IF result.selected THEN selectedCount + 1 ELSE selectedCount
  /\ i' = i + 1
  /\ failure' = "none"
  /\ pc' = "employee"
  /\ UNCHANGED << queue, top_n, ingressVars, cur, scored, result, failedCount, scorePath,
                  researchCalls, scores, started, finished >>

\* the loop is over: process_company_batch returns, company_queue.task_done()
BatchCompleted ==
  /\ pc = "employee"
  /\ i > Len(cur.employees)
  /\ finished' = Append(finished, [id |-> cur.id, outcome |-> "completed",
                                   employees |-> Len(cur.employees),
                                   delivered |-> Len(sent), selected |-> selectedCount,
                                   failed |-> failedCount, scoring |-> scorePath,
                                   research |-> researchCalls, delayed |-> FALSE])
  /\ pc' = "delay"
  /\ FrameGone
  /\ UNCHANGED << queue, top_n, ingressVars, started >>

\* time.sleep(delay) between companies, then back to company_queue.get()
DelayBetweenCompanies ==
  /\ pc = "delay"
  /\ finished' = [finished EXCEPT ![Len(finished)].delayed = TRUE]
  /\ pc' = "get"
  /\ UNCHANGED << queue, top_n, ingressVars, batchVars, started >>

\* process_company_batch, step by step
PipelineNext ==
  \/ ResearchReturns
  \/ ResearchRaises
  \/ ScoreRaises
  \/ ScoreReturns
  \/ BeginEmployee
  \/ GenerateReturns
  \/ GenerateRaises
  \/ SelectRaises
  \/ SelectReturns
  \/ Deliver
  \/ BatchCompleted

\* queue_worker
WorkerNext ==
  \/ WorkerGetBatch
  \/ WorkerGetSentinel
  \/ PipelineNext
  \/ DelayBetweenCompanies

IngressNext ==
  \/ PostReject
  \/ PostError
  \/ PostPut
  \/ PostRespond
  \/ Health
  \/ Index
  \/ PutSentinel

Next == IngressNext \/ WorkerNext

\* the whole service
Spec == Init /\ [][Next]_vars

\* the worker thread is scheduled and every external call returns or raises
FairSpec == Spec /\ WF_vars(WorkerNext)

NextBatch == WorkerGetBatch \/ PipelineNext \/ DelayBetweenCompanies

\* one batch through the pipeline, for every employee list of up to MaxEmps
SpecBatch == InitBatch /\ [][NextBatch]_vars

\* one batch of titled employees through the pipeline
SpecTitles == InitTitles /\ [][NextBatch]_vars

(* ------------------------------- claims ------------------------------- *)

\* the worker is inside the per-employee loop of process_company_batch
InLoop == pc \in {"employee", "generate", "select", "deliver"}

\* the loop of the current batch is over and process_company_batch is about
\* to return
LoopOver == pc = "employee" /\ i > Len(cur.employees)

\* C1: for every batch the worker has taken and every outcome of the external
\* calls, the deliveries attempted are exactly one per employee of the batch:
\* the delivered indexes are 1, 2, ... without gap or repetition and a batch
\* that has ended (returned or raised) has as many deliveries as employees.
C1_OneDeliveryPerEmployee ==
  /\ \A k \in DOMAIN sent : sent[k] = k
  /\ \A k \in DOMAIN finished : finished[k].delivered = finished[k].employees

\* C2: a delivered result with selected=true belongs to an employee whose own
\* EmployeeScore is among the first top_n entries of the sorted score list
\* and has a score >= 70.
C2_SelectedImpliesOwnTopScore ==
  lastDelivery.result.selected =>
    \E k \in DOMAIN TopSlice(scored, top_n) :
       scored[k].idx = lastDelivery.idx /\ scored[k].score >= SelectThreshold

\* C3: at most top_n results of one batch are delivered with selected=true.
C3_AtMostTopNSelected ==
  /\ selectedCount <= top_n
  /\ \A k \in DOMAIN finished : finished[k].selected <= top_n

\* C4: research_company is invoked exactly once while a batch is processed:
\* never more than once, once as soon as scoring or the employee loop is
\* reached, and once in every batch that has ended.
C4_ResearchOncePerBatch ==
  /\ researchCalls <= 1
  /\ (pc = "score" \/ InLoop) => researchCalls = 1
  /\ \A k \in DOMAIN finished : finished[k].research = 1

\* C4 witness: a batch of at least two employees, one of them selected, has
\* run its whole loop with a single research call.
C4_Witness ==
  /\ LoopOver
  /\ Len(cur.employees) >= 2
  /\ selectedCount >= 1
  /\ researchCalls = 1

\* C5: batches are started in the order of their puts (ids count the puts)
\* and none is started twice: the k-th batch started is the k-th batch put.
C5_StartedInPutOrder == \A k \in DOMAIN started : started[k] = k

\* C5 witness: two batches were started, the second one before its handler
\* had answered.
C5_Witness == Len(started) >= 2 /\ pending # {}

\* a batch is on the queue
Queued(b) == \E k \in DOMAIN queue : queue[k].id = b

\* None was put on the queue before batch b
SentinelBefore(b) == sentinelAt # -1 /\ b > sentinelAt

\* process_company_batch has raised for some batch
SomeBatchRaised == \E k \in DOMAIN finished : finished[k].outcome = "raised"

\* batch b has ended (returned or raised)
Ended(b) == \E k \in DOMAIN finished : finished[k].id = b

\* C6: when process_company_batch raises, the worker goes back to waiting on
\* the queue; and every batch that is on the queue after a failure, with no
\* shutdown signal ahead of it, is eventually taken and processed to its end.
C6_FailureDoesNotBlockQueue ==
  /\ [][(Len(finished') > Len(finished)
          /\ finished'[Len(finished')].outcome = "raised") => pc' = "get"]_vars
  /\ \A b \in 1..MaxPosts :
       (Queued(b) /\ SomeBatchRaised /\ ~SentinelBefore(b)) ~> Ended(b)

\* C6 witness: a batch raised and a batch enqueued behind it was processed.
C6_Witness ==
  \E k \in DOMAIN finished, m \in DOMAIN finished :
     k < m /\ finished[k].outcome = "raised" /\ finished[m].outcome = "completed"

\* the shutdown signal has been put and is no longer on the queue
SentinelTaken == sentinelAt # -1 /\ \A k \in DOMAIN queue : queue[k] # NoneItem

\* C7: once None has been dequeued the worker has terminated; the batches it
\* has started are exactly those put before None; taking None starts no
\* pipeline; and a terminated worker stays terminated and starts nothing.
C7_SentinelStopsWorker ==
  /\ [](SentinelTaken =>
          /\ pc = "stopped"
          /\ started = [k \in 1..sentinelAt |-> k])
  /\ [][(pc # "stopped" /\ pc' = "stopped") =>
          (started' = started /\ finished' = finished /\ cur = NoneItem)]_vars
  /\ [][pc = "stopped" =>
          (pc' = "stopped" /\ started' = started /\ finished' = finished)]_vars

\* C7 witness: the worker has terminated after taking a batch, and a batch
\* put behind None is left on the queue.
C7_Witness ==
  /\ pc = "stopped"
  /\ sentinelAt >= 1
  /\ accepted > sentinelAt
  /\ Len(started) = sentinelAt

\* C8: when the scoring LLM step fails (llm.invoke raises, or its response is
\* not the expected array) the batch is scored by the keyword fallback and
\* goes on to selection and delivery: no batch ends with the scoring call
\* raised, and a batch whose response was rejected runs on fallback scores.
C8_ScoringFailureFallsBack ==
  /\ \A k \in DOMAIN finished : finished[k].scoring # "invoke_raised"
  /\ (InLoop /\ scorePath = "fallback") => scored = FallbackScoring(cur.employees)

\* C9 as stated: a delivered result with a non-empty error has selected=false.
C9_ErrorImpliesUnselected ==
  lastDelivery.result.error # "" => ~lastDelivery.result.selected

\* C9 amended: a delivered result with a non-empty error has selected=true,
\* an empty message and message_score 0 (the error comes from the message
\* generation of a selected employee, which leaves selected untouched); a
\* result with selected=false always has an empty error.
C9_ErrorImpliesSelectedFailure ==
  /\ lastDelivery.result.error # "" =>
       /\ lastDelivery.result.selected
       /\ lastDelivery.result.message = ""
       /\ lastDelivery.result.message_score = 0
       /\ lastDelivery.failure # "none"
  /\ ~lastDelivery.result.selected => lastDelivery.result.error = ""

\* C9 witness: a result with a non-empty error was delivered.
C9_Witness == lastDelivery.idx >= 1 /\ lastDelivery.result.error # ""

C11_FailedDeliveryIgnored ==
  /\ [](lastDelivery.outcome \in {"non2xx", "transport_error"} =>
          /\ InLoop
          /\ Cardinality({k \in DOMAIN sent : sent[k] = lastDelivery.idx}) = 1
          /\ i = lastDelivery.idx + 1)
  /\ [](deliveryFailures <= Len(sent))
  /\ [][pc = "deliver" =>
          /\ pc' = "employee"
          /\ i' = i + 1
          /\ sent' = Append(sent, i)
          /\ finished' = finished]_vars
  /\ [][(Len(finished') > Len(finished) /\ deliveryFailures > 0) =>
          /\ finished'[Len(finished')].outcome = "completed"
          /\ finished'[Len(finished')].delivered = finished'[Len(finished')].employees]_vars

\* C11 witness: the delivery for the first employee of a batch failed and the
\* delivery for the second one was made after it.
C11_Witness ==
  /\ LoopOver
  /\ Len(cur.employees) >= 2
  /\ deliveryFailures = 1
  /\ lastDelivery.idx = 2
  /\ lastDelivery.outcome = "2xx"

\* C12: a POST /process whose records are missing or empty, or whose
\* webhook_url is missing, is answered with 400; answering 400 leaves the
\* queue and the count of accepted batches unchanged; a put on the queue is
\* made only by a handler that is then left to answer, and such a handler
\* answers 202 for the batch it has put.
C12_RejectedRequestsNotEnqueued ==
  /\ [](lastResponse.request \in {"no_records", "empty_records", "no_webhook_url"} =>
          lastResponse.code = 400 /\ lastResponse.batch = 0)
  /\ [](lastResponse.batch # 0 => lastResponse.code = 202)
  /\ [][(lastResponse' # lastResponse /\ lastResponse'.code = 400) =>
          (queue' = queue /\ accepted' = accepted /\ pending' = pending)]_vars
  /\ [][accepted' # accepted =>
          /\ accepted' = accepted + 1
          /\ \E h \in pending' : h \notin pending /\ h.batch = accepted'
          /\ Len(queue') = Len(queue) + 1
          /\ queue'[Len(queue')].id = accepted']_vars
  /\ [][(Len(queue') > Len(queue) /\ queue'[Len(queue')] # NoneItem) =>
          accepted' = accepted + 1]_vars
  /\ [][pending' \subseteq pending /\ pending' # pending =>
          \E h \in pending :
             /\ pending' = pending \ {h}
             /\ lastResponse'.code = 202
             /\ lastResponse'.batch = h.batch]_vars

\* C12 witness: a request with an empty records array was answered with 400
\* while an earlier batch was waiting on the queue.
C12_Witness ==
  /\ lastResponse.request = "empty_records"
  /\ lastResponse.code = 400
  /\ lastResponse.req = 2
  /\ Len(queue) = 1
  /\ accepted = 1

\* the fallback score as C13 words it: base by the first keyword of the list
\* cto / chief technology, vp / vice president, chief, head of, director,
\* manager that the lower-cased title contains, plus 10 for a bonus keyword,
\* at most 100
C13_Score(title) ==
  LET t == Lower(title)
      base == CASE Contains(t, "cto") \/ Contains(t, "chief technology") -> 95
                [] OTHER ->
              CASE Contains(t, "vp") \/ Contains(t, "vice president") -> 90
                [] OTHER ->
              CASE Contains(t, "chief") -> 85
                [] OTHER ->
              CASE Contains(t, "head of") -> 80
                [] OTHER ->
              CASE Contains(t, "director") -> 75
                [] OTHER ->
              CASE Contains(t, "manager") -> 60
                [] OTHER -> 50
      bonus == IF \E kw \in {"digital", "technology", "tech", "innovation",
                              "transformation"} : Contains(t, kw)
               THEN 10 ELSE 0
  IN IF base + bonus > 100 THEN 100 ELSE base + bonus

\* C13: on the fallback path every employee of the batch has exactly one
\* score, and it is the value the keyword table gives for the employee's own
\* lower-cased title, min(100, base + bonus), whatever the other employees
\* of the batch and their order are.
C13_FallbackScoreByTitle ==
  (InLoop /\ scorePath = "fallback") =>
    /\ Len(scored) = Len(cur.employees)
    /\ \A e \in DOMAIN cur.employees :
         \E k \in DOMAIN scored :
            /\ scored[k].idx = e
            /\ scored[k].score = C13_Score(cur.employees[e].title)
            /\ scored[k].score \in 0..100

\* C13 witness: the fallback scored a title that contains both "head of" and
\* "director" together with a title whose bonus is cut by the cap.
C13_Witness ==
  /\ InLoop
  /\ scorePath = "fallback"
  /\ Len(cur.employees) = 2
  /\ cur.employees[1].title = "Head of Director Relations"
  /\ cur.employees[2].title = "Chief Technology Officer"
  /\ \E k \in DOMAIN scored : scored[k].idx = 2 /\ scored[k].score = 100

\* C14: a delivered result with selected=true has a message_score in 0..10,
\* and the score is 0 only when generation or selection failed (the error is
\* non-empty), for every text the selection step returns.
C14_MessageScoreRange ==
  (lastDelivery.idx >= 1 /\ lastDelivery.result.selected) =>
    /\ lastDelivery.result.message_score \in 0..10
    /\ lastDelivery.result.message_score = 0 => lastDelivery.result.error # ""

\* the fallback score of the employee at position e of the current batch
ScoreOfEmployee(e) ==
  LET k == CHOOSE k \in DOMAIN scored : scored[k].idx = e IN scored[k].score

\* C15: for the batch CTO, Manager, Director, Intern, VP Sales scored by the
\* fallback with N=3, the scores are 95, 60, 75, 50, 90, the first three of
\* the sorted list are CTO, VP Sales, Director, and the results of exactly
\* those three are delivered with selected=true.
C15_ScenarioScores ==
  (InLoop /\ scorePath = "fallback" /\ cur.employees = ScenarioEmployees /\ top_n = 3) =>
    /\ [e \in 1..5 |-> ScoreOfEmployee(e)] = <<95, 60, 75, 50, 90>>
    /\ [k \in 1..3 |-> scored[k].idx] = <<1, 5, 3>>
    /\ lastDelivery.idx >= 1 =>
         (lastDelivery.result.selected <=> lastDelivery.idx \in {1, 3, 5})

\* C17: when the worker takes a batch, every batch it has processed before,
\* whether its pipeline returned or raised, has been followed by the delay
\* between companies.
C17_DelayAfterEveryBatch ==
  [][Len(started') > Len(started) =>
       \A k \in DOMAIN finished : finished[k].delayed]_vars

\* the worker is inside process_company_batch
InPipeline == pc \in {"research", "score", "employee", "generate", "select", "deliver"}

\* C16: at most one batch is inside process_company_batch: the batches
\* started exceed the batches ended by at most one, and by one exactly while
\* the worker is in the pipeline; batches end in the order they started; and
\* a batch is started only when every batch started before it has ended
\* (returned or raised), whatever requests are handled meanwhile.
C16_OneBatchAtATime ==
  /\ [](Len(started) - Len(finished) \in {0, 1})
  /\ [](InPipeline <=> Len(started) = Len(finished) + 1)
  /\ [](InPipeline => cur.id = started[Len(started)])
  /\ [](\A k \in DOMAIN finished : finished[k].id = started[k])
  /\ [][Len(started') > Len(started) =>
          (Len(started) = Len(finished) /\ ~InPipeline /\ cur = NoneItem)]_vars

\* C16 witness: the second batch is in the pipeline after the first one has
\* ended, while a request handler is between its put and its answer.
C16_Witness ==
  /\ Len(started) = 2
  /\ Len(finished) = 1
  /\ pc = "deliver"
  /\ pending # {}

\* C18: within one batch research has returned before scoring starts and
\* scoring has returned before any generation or delivery; deliveries are
\* made in the order of the employee list; work on employee i (generation,
\* selection, delivery) happens when exactly the employees before i have
\* been delivered; and for a selected employee generation comes first, then
\* selection, then the delivery.
C18_StepsInOrder ==
  /\ [](pc = "research" => (researchCalls = 0 /\ scorePath = "none" /\ sent = <<>>))
  /\ [](pc = "score" => (researchCalls = 1 /\ scorePath = "none" /\ sent = <<>>))
  /\ [](InLoop => (researchCalls = 1 /\ scorePath \in {"llm", "fallback"}))
  /\ [](\A k \in DOMAIN sent : sent[k] = k)
  /\ [](pc \in {"generate", "select", "deliver"} => Len(sent) = i - 1)
  /\ [](pc = "generate" => (genCalls = 0 /\ selCalls = 0))
  /\ [](pc = "select" => (genCalls = 1 /\ selCalls = 0))
  /\ []((pc = "deliver" /\ result.selected) =>
          /\ genCalls = 1
          /\ selCalls = 1 \/ failure = "generation")
  /\ [][pc' = "select" => pc = "generate"]_vars
  /\ [][(genCalls' > genCalls \/ selCalls' > selCalls) =>
          (result.selected /\ Len(sent) = i - 1 /\ i' = i)]_vars
  /\ [][Len(sent') > Len(sent) =>
          (pc = "deliver" /\ sent' = Append(sent, i) /\ i' = i + 1)]_vars

\* C18 witness: both employees of a batch were selected and the second one
\* has been delivered after its generation and selection.
C18_Witness ==
  /\ LoopOver
  /\ Len(cur.employees) = 2
  /\ selectedCount = 2
  /\ sent = <<1, 2>>
  /\ lastDelivery.gen = 1
  /\ lastDelivery.sel = 1

\* C19: for an employee delivered with selected=false neither
\* generate_message_variants nor select_best_message was called and the
\* result has an empty message, message_score 0 and an empty error; for any
\* employee each of the two is called at most once.
C19_UnselectedUntouched ==
  /\ genCalls <= 1 /\ selCalls <= 1
  /\ lastDelivery.gen <= 1 /\ lastDelivery.sel <= 1
  /\ (InLoop /\ pc # "employee" /\ ~result.selected) =>
       (pc = "deliver" /\ genCalls = 0 /\ selCalls = 0)
  /\ (lastDelivery.idx >= 1 /\ ~lastDelivery.result.selected) =>
       /\ lastDelivery.gen = 0
       /\ lastDelivery.sel = 0
       /\ lastDelivery.result.message = ""
       /\ lastDelivery.result.message_score = 0
       /\ lastDelivery.result.error = ""

\* C19 witness: a batch with one selected employee, whose message was
\* generated and selected, and one unselected employee, delivered last.
C19_Witness ==
  /\ LoopOver
  /\ sent = <<1, 2>>
  /\ selectedCount = 1
  /\ failedCount = 0
  /\ ~lastDelivery.result.selected

\* the entries of the returned array whose name contains the full name of the
\* employee at position e, case-insensitively
C20_Hits(e) ==
  {m \in DOMAIN scores :
     Contains(Lower(scores[m].name), Lower(cur.employees[e].fullName))}

\* the first of the returned entries matches the employee at e and gives its
\* only EmployeeScore, or no entry matches and the employee has none
C20_FirstMatchScored(e) ==
  LET own == {k \in DOMAIN scored : scored[k].idx = e}
  IN IF C20_Hits(e) = {} THEN own = {}
     ELSE \E k \in own :
            /\ own = {k}
            /\ \E m \in C20_Hits(e) :
                 /\ \A n \in C20_Hits(e) : m <= n
                 /\ scored[k].score = scores[m].score

\* C20: when score_employees returns on the LLM path, every employee has the
\* score of the first returned entry whose name contains the employee's full
\* name, and an employee without such an entry has no EmployeeScore; the
\* result delivered for an employee without EmployeeScore has selected=false
\* and selection_reasoning "Not scored.".
C20_UnmatchedNotScored ==
  /\ (pc = "employee" /\ i = 1 /\ scorePath = "llm") =>
       \A e \in DOMAIN cur.employees : C20_FirstMatchScored(e)
  /\ (lastDelivery.idx >= 1 /\ scorePath = "llm"
        /\ \A k \in DOMAIN scored : scored[k].idx # lastDelivery.idx) =>
       /\ ~lastDelivery.result.selected
       /\ lastDelivery.result.selection_reasoning = "Not scored."

\* the entry json.loads returned that the employee at e is matched with
\* (the first one whose name contains the full name); only used when there
\* is one
C21_Match(e) == scores[CHOOSE m \in C20_Hits(e) : \A n \in C20_Hits(e) : m <= n]

\* the matched entry of the employee at e cannot become an EmployeeScore
C21_BadMatch(e) ==
  /\ C20_Hits(e) # {}
  /\ ~C21_Match(e).complete \/ C21_Match(e).score \notin 0..100

\* C21: every EmployeeScore of the list score_employees returned has a score
\* in 0..100 and the list is sorted by score, highest first, on the LLM path
\* and on the fallback path; and when the entry matched with some employee
\* has a score outside 0..100 or lacks a field, every employee of the batch
\* has its keyword fallback score and no LLM score is used.
C21_ScoresValidSortedOrFallback ==
  /\ InLoop =>
       /\ scorePath \in {"llm", "fallback"}
       /\ \A k \in DOMAIN scored : scored[k].score \in 0..100
       /\ \A k \in 1..(Len(scored) - 1) : scored[k].score >= scored[k + 1].score
  /\ (pc = "employee" /\ i = 1 /\ \E e \in DOMAIN cur.employees : C21_BadMatch(e)) =>
       /\ scorePath = "fallback"
       /\ Len(scored) = Len(cur.employees)
       /\ \A e \in DOMAIN cur.employees :
            \E k \in DOMAIN scored :
               /\ scored[k].idx = e
               /\ scored[k].score = C13_Score(cur.employees[e].title)
               /\ scored[k].reasoning = "Scored based on title and role relevance"

\* C21 witness: of two employees one is matched with a valid entry and the
\* other with an entry whose score is above 100, and the batch was scored
\* by the fallback.
C21_Witness ==
  /\ pc = "employee" /\ i = 1
  /\ scorePath = "fallback"
  /\ Len(cur.employees) = 2
  /\ \E e \in DOMAIN cur.employees : C21_BadMatch(e) /\ C21_Match(e).score > 100
  /\ \E e \in DOMAIN cur.employees : C20_Hits(e) # {} /\ ~C21_BadMatch(e)

\* C22: once the loop over the employees has been entered the batch cannot
\* be aborted: every step taken inside the loop stays in the loop or ends
\* it normally after a delivery attempt for every employee, in list order;
\* a batch raises only in research or scoring, before any delivery; so a
\* batch that has ended was delivered in full or not at all.
C22_LoopNeverAborts ==
  /\ [][InLoop =>
          \/ InLoop' /\ finished' = finished
          \/ /\ pc' = "delay"
             /\ sent = [k \in 1..Len(cur.employees) |-> k]
             /\ finished' # finished
             /\ finished'[Len(finished')].outcome = "completed"]_vars
  /\ [][(Len(finished') > Len(finished)
          /\ finished'[Len(finished')].outcome = "raised") =>
          (pc \in {"research", "score"} /\ sent = <<>>)]_vars
  /\ [](\A k \in DOMAIN finished :
          \/ finished[k].outcome = "completed"
               /\ finished[k].delivered = finished[k].employees
          \/ finished[k].outcome = "raised" /\ finished[k].delivered = 0)

\* C22 witness: a batch of two employees has ended normally with two
\* delivery attempts although the message generation of one of them failed.
C22_Witness ==
  /\ pc = "delay"
  /\ Len(finished) = 1
  /\ finished[1].outcome = "completed"
  /\ finished[1].employees = 2
  /\ finished[1].delivered = 2
  /\ finished[1].failed >= 1

\* C23: the queue_position of a 202 answer is at least 1 and the batch the
\* request has put is among the batches it counts (it is still on the queue
\* when qsize() is read), whatever the worker and other handlers do between
\* the put and the answer.
C23_QueuePositionCountsOwnBatch ==
  [][(lastResponse' # lastResponse /\ lastResponse'.code = 202) =>
       /\ lastResponse'.queue_position >= 1
       /\ Queued(lastResponse'.batch)]_vars

\* C24: a worker that has terminated on the shutdown signal stays
\* terminated: it starts and ends no batch and delivers nothing; no batch put
\* behind the signal is ever started; POST /process can still put a batch
\* and answers 202 for it, and a batch put behind the signal is still on the
\* queue then; and the queue size that GET /health and GET / report never
\* goes down.
C24_TerminatedWorkerStaysDown ==
  /\ [][pc = "stopped" =>
          /\ pc' = "stopped"
          /\ started' = started /\ finished' = finished
          /\ sent' = sent /\ lastDelivery' = lastDelivery /\ cur' = cur
          /\ Len(queue') >= Len(queue)
          /\ HealthResponse'.queue_size >= HealthResponse.queue_size
          /\ IndexResponse'.queue_size >= IndexResponse.queue_size]_vars
  /\ [](\A k \in DOMAIN started : ~SentinelBefore(started[k]))
  /\ []((pc = "stopped" /\ posts < MaxPosts) => ENABLED PostPut)
  /\ []((pc = "stopped" /\ pending # {}) => ENABLED PostRespond)
  /\ [][(pc = "stopped" /\ accepted' # accepted) =>
          (Len(queue') = Len(queue) + 1 /\ queue'[Len(queue')].id = accepted')]_vars
  /\ [][(pc = "stopped" /\ pending' # pending /\ accepted' = accepted) =>
          /\ lastResponse'.code = 202
          /\ SentinelBefore(lastResponse'.batch) =>
               (Queued(lastResponse'.batch) /\ lastResponse'.queue_position >= 1)]_vars

\* C24 witness: the worker has terminated before any batch was put, two
\* requests were answered with 202 afterwards and their batches stay on the
\* queue.
C24_Witness ==
  /\ pc = "stopped"
  /\ sentinelAt = 0
  /\ accepted = 2
  /\ pending = {}
  /\ Len(queue) = 2
  /\ started = <<>>
  /\ lastResponse.code = 202
  /\ lastResponse.queue_position = 2

====
